---- MODULE Spec2Model ----
(***************************************************************************)
(* The YMODEM sender of src/ymode.js: the packet builders (makeFileHeader,  *)
(* splitFile, crc16xmodem) as operators, and transfer() as a state machine  *)
(* over its closure variables, the reader, the writer and the promise.      *)
(*                                                                         *)
(* Environment assumptions (the reader and the writer are the caller's):    *)
(*  - reader.read() yields a chunk of bytes, {done}, or fails;              *)
(*  - reader.cancel() closes the stream at once (later reads yield done)    *)
(*    and its promise is fulfilled in a later microtask;                    *)
(*  - `reader.locked` is whatever the reader object exposes: a WHATWG       *)
(*    ReadableStreamDefaultReader has no such property (falsy), another     *)
(*    reader object may answer true while it holds its lock;                *)
(*  - writer.write() is called synchronously by sendBuffer; once a write    *)
(*    has failed the writer is errored and every later write fails too.     *)
(***************************************************************************)
EXTENDS Integers, Sequences, FiniteSets, TLC

\* ----------------------------------------------------------------- bounds
\* Inbound bytes delivered over one run.
MaxInbound == 6
\* Bytes in one chunk returned by reader.read().
MaxChunk == 2
\* Whole 1024-byte blocks a file of the bounded set may span.
MaxBlocks == 3
\* Characters in a file name (header round trip).
MaxNameLen == 2

\* ------------------------------------------------------ program constants
PACKET_SIZE_128 == 128
PACKET_SIZE_1024 == 1024
SOH == 1
STX == 2
EOT == 4
ACK == 6
NAK == 21
CA == 24
CRC16 == 67
\* The inbound bytes of the model: the four control bytes readData tests
\* for, and 0 for any byte that is none of them.
InboundBytes == {CRC16, ACK, NAK, CA, 0}

Min(a, b) == IF a <= b THEN a ELSE b

\* File lengths: multiples of 1024, remainders <= 128 and remainders > 128.
FileSizes ==
    {b * PACKET_SIZE_1024 + r : b \in 0..(MaxBlocks - 1), r \in {0, 128, 129}}
        \cup {MaxBlocks * PACKET_SIZE_1024}

\* ------------------------------------------------------- bytes and text
RECURSIVE Xor(_, _)
\* a ^ b on non-negative integers.
Xor(a, b) ==
    IF a = 0 THEN b
    ELSE IF b = 0 THEN a
    ELSE ((a + b) % 2) + 2 * Xor(a \div 2, b \div 2)

\* One turn of crc16xmodem's loop: the register after the byte `byte`.
crcStep(crc, byte) ==
    LET c0 == Xor((crc \div 256) % 256, byte % 256)
        c1 == Xor(c0, c0 \div 16)
        r1 == Xor((crc * 256) % 65536, c1)
        c2 == (c1 * 32) % 65536
        r2 == Xor(r1, c2)
        c3 == (c2 * 128) % 65536
    IN  Xor(r2, c3)

RECURSIVE crc16xmodem(_, _, _, _)
\* The loop over packet[begin .. begin + len), run as its first half and then
\* its second half, each seeded with the register the bytes before it left
\* (the evaluation stays shallow). packet is 1-based here, begin 0-based.
crc16xmodem(packet, begin, len, previous) ==
    IF len <= 0 THEN previous
    ELSE IF len = 1 THEN crcStep(previous, packet[begin + 1])
    ELSE LET half == len \div 2
             crc == crc16xmodem(packet, begin, half, previous)
         IN  IF crc >= 0
             THEN crc16xmodem(packet, begin + half, len - half, crc)
             ELSE crc

\* Buffer.alloc(n, fill)
BufferAlloc(n, fill) == [k \in 1..n |-> fill]

\* The UTF-8 bytes of one character (a code point below 0x800).
Utf8Char(c) == IF c < 128 THEN <<c>> ELSE <<192 + (c \div 64), 128 + (c % 64)>>

RECURSIVE Utf8(_)
Utf8(str) == IF str = <<>> THEN <<>> ELSE Utf8Char(Head(str)) \o Utf8(Tail(str))

RECURSIVE Digits(_)
\* Number.prototype.toString() of a non-negative integer, as character codes.
Digits(n) == IF n < 10 THEN <<48 + n>> ELSE Append(Digits(n \div 10), 48 + (n % 10))

\* buf.write(str, offset): the UTF-8 bytes of str from the 0-based offset on,
\* cut at the end of the buffer.
BufferWrite(buf, str, offset) ==
    LET bytes == Utf8(str)
    IN  [k \in 1..Len(buf) |->
           IF k > offset /\ k - offset <= Len(bytes) THEN bytes[k - offset] ELSE buf[k]]

\* buf.writeUInt16BE(v, offset)
WriteUInt16BE(buf, v, offset) ==
    [k \in 1..Len(buf) |->
       IF k = offset + 1 THEN v \div 256
       ELSE IF k = offset + 2 THEN v % 256
       ELSE buf[k]]

\* makeFileHeader: the 133 bytes of the header packet. `if (filename)` and
\* `if (filesize)` are JavaScript truthiness: "" and 0 take neither branch.
makeFileHeader(name, filesize) ==
    LET File_HD_SIZE == 128
        p0 == [BufferAlloc(File_HD_SIZE + 3 + 2, 0) EXCEPT ![1] = SOH, ![2] = 0, ![3] = 255]
        p1 == IF name # <<>> THEN BufferWrite(p0, name, 3) ELSE p0
        offset == IF name # <<>> THEN 3 + Len(name) + 1 ELSE 3
        p2 == IF filesize # 0 THEN BufferWrite(p1, Digits(filesize) \o <<32>>, offset) ELSE p1
        crc == crc16xmodem(p2, 3, File_HD_SIZE, 0)
    IN  WriteUInt16BE(p2, crc, Len(p2) - 2)

\* ------------------------------------------------------------- the queue
\* A packet of the queue, by what its bytes are made of: the three head
\* bytes, the payload size, the source of the payload ("header": the file
\* metadata; "file": buffer[from .. to) copied at payload offset 0) and the
\* byte the rest of the allocation was filled with.
headerPacket(filename, filesize) ==
    [marker |-> SOH, seq |-> 0, comp |-> 255, packSize |-> 128,
     src |-> "header", from |-> 0, to |-> 0, fill |-> 0,
     name |-> filename, size |-> filesize]

maxPack(totalBytes) == (totalBytes + PACKET_SIZE_1024 - 1) \div PACKET_SIZE_1024

\* splitPackSize with `<` for `<=`: a remainder of exactly 128 goes large.
splitPackSize_Strict(i, totalBytes) ==
    IF (i + 1) = maxPack(totalBytes) /\ totalBytes - i * PACKET_SIZE_1024 < 128
    THEN PACKET_SIZE_128 ELSE PACKET_SIZE_1024

splitPackSize(i, totalBytes) ==
    IF (i + 1) = maxPack(totalBytes) /\ totalBytes - i * PACKET_SIZE_1024 <= 128
    THEN PACKET_SIZE_128 ELSE PACKET_SIZE_1024

\* splitChunk with the mask 0x7f for 0xff.
splitChunk_Mask7f(i, totalBytes) ==
    LET is_last == (i + 1) = maxPack(totalBytes)
        packSize == splitPackSize(i, totalBytes)
        seqByte == (i + 1) % 128
    IN  [marker |-> IF packSize = PACKET_SIZE_1024 THEN STX ELSE SOH,
         seq |-> seqByte, comp |-> 255 - seqByte, packSize |-> packSize,
         src |-> "file", from |-> PACKET_SIZE_1024 * i,
         to |-> Min(PACKET_SIZE_1024 * i + packSize, totalBytes),
         fill |-> IF is_last THEN 26 ELSE 0,
         name |-> <<>>, size |-> 0]

splitChunk(i, totalBytes) ==
    LET is_last == (i + 1) = maxPack(totalBytes)
        packSize == splitPackSize(i, totalBytes)
        seqByte == (i + 1) % 256
    IN  [marker |-> IF packSize = PACKET_SIZE_1024 THEN STX ELSE SOH,
         seq |-> seqByte, comp |-> 255 - seqByte, packSize |-> packSize,
         src |-> "file", from |-> PACKET_SIZE_1024 * i,
         to |-> Min(PACKET_SIZE_1024 * i + packSize, totalBytes),
         fill |-> IF is_last THEN 26 ELSE 0,
         name |-> <<>>, size |-> 0]

splitFile(totalBytes) == [k \in 1..maxPack(totalBytes) |-> splitChunk(k - 1, totalBytes)]

\* buffer.copy(target, targetStart, sourceStart, sourceEnd): the source bytes
\* [sourceStart, sourceEnd), cut at the end of the source, laid over target
\* from targetStart on (all offsets 0-based).
BufferCopy(source, target, targetStart, sourceStart, sourceEnd) ==
    LET n == Min(sourceEnd, Len(source)) - sourceStart
    IN  [k \in 1..Len(target) |->
           IF k > targetStart /\ k - targetStart <= n
           THEN source[sourceStart + (k - targetStart)]
           ELSE target[k]]

\* The bytes of the data packet d of splitFile(buffer): the allocation with
\* its fill byte, the three head bytes, the span of the buffer copied in at
\* offset 3, and the CRC of the payload in the last two bytes.
chunkBytes(buffer, d) ==
    LET c0 == [BufferAlloc(d.packSize + 3 + 2, d.fill)
                 EXCEPT ![1] = d.marker, ![2] = d.seq, ![3] = d.comp]
        c1 == BufferCopy(buffer, c0, 3, d.from, d.from + d.packSize)
        crc == crc16xmodem(c1, 3, d.packSize, 0)
    IN  WriteUInt16BE(c1, crc, Len(c1) - 2)

\* splitFile(buffer) as the frames it returns.
splitFileBytes(buffer) ==
    LET ds == splitFile(Len(buffer))
    IN  [k \in 1..Len(ds) |-> chunkBytes(buffer, ds[k])]

\* The predefined 133-byte frame eot_pack: SOH, 0, 0xff, then zeros.
eot_pack ==
    [marker |-> SOH, seq |-> 0, comp |-> 255, packSize |-> 128,
     src |-> "zero", from |-> 0, to |-> 0, fill |-> 0, name |-> <<>>, size |-> 0]

\* The single byte Buffer.from([EOT]).
eot_byte ==
    [marker |-> EOT, seq |-> 0, comp |-> 0, packSize |-> 0,
     src |-> "byte", from |-> 0, to |-> 0, fill |-> 0, name |-> <<>>, size |-> 0]

\* ------------------------------------------------------------- the state
VARIABLES
    filename,       \* transfer's argument
    file_trunks,    \* the packet queue: header, then the data packets
    totalBytes,
    writtenBytes,
    seq,            \* cursor into file_trunks (0-based, as in the code)
    session,
    sending,
    finished,
    PreChar,        \* readData's previous inbound byte
    progressCallback, \* whether a callback was supplied
    progress,       \* the values the callback was invoked with
    pc,             \* readData: "await" (in reader.read), "loop", "exit"
    left,           \* bytes of the current chunk not yet looked at
    inbound,        \* bytes delivered so far (bounds the run)
    rd,             \* inbound stream: "open", "closed", "errored"
    readerLocked,   \* what reader.locked answers
    released,       \* reader.releaseLock() was called
    cancels,        \* reader.cancel() promises not yet fulfilled
    writes,         \* the calls of writer.write, in order
    writerErrored,  \* a write has failed
    promise,        \* "pending", "resolved", "rejected"
    outcomes,       \* the values resolve() was called with
    caMid,          \* a CA was handled mid-transfer (MidTransfer held)
    history,        \* [runC, sawCA]: C bytes handled in a row; a CA was handled
    rxQueue,        \* simulated receiver: bytes on their way to the driver
    rxAnswered,     \* simulated receiver: writes it has answered
    hdrIn,          \* header round trip: the arguments of makeFileHeader
    hdrOut,         \* header round trip: the packet it returned, <<>> before
    splitBuf,       \* splitFile on its own: its argument, the file's bytes
    splitOut        \* splitFile on its own: [done, array], the frames returned

vars == <<filename, file_trunks, totalBytes, writtenBytes, seq, session, sending,
          finished, PreChar, progressCallback, progress, pc, left, inbound, rd,
          readerLocked, released, cancels, writes, writerErrored, promise,
          outcomes, caMid, history, rxQueue, rxAnswered, hdrIn, hdrOut, splitBuf, splitOut>>

driverVars == <<writtenBytes, seq, session, sending, PreChar, progress>>
queueVars == <<filename, file_trunks, totalBytes, progressCallback, hdrIn, hdrOut,
              splitBuf, splitOut>>
rxVars == <<rxQueue, rxAnswered>>

DriverNames == {<<97>>}

\* transfer(): lines 132-138 and 283-295, up to the call of readData.
InitTransfer(sizes) ==
    /\ filename \in DriverNames
    /\ totalBytes \in sizes
    /\ file_trunks = <<headerPacket(filename, totalBytes)>> \o splitFile(totalBytes)
    /\ writtenBytes = 0
    /\ seq = 0
    /\ session = TRUE
    /\ sending = FALSE
    /\ finished = FALSE
    /\ PreChar = 0
    /\ progressCallback \in BOOLEAN
    /\ progress = <<>>
    /\ pc = "await"
    /\ left = 0
    /\ inbound = 0
    /\ rd = "open"
    /\ readerLocked \in BOOLEAN
    /\ released = FALSE
    /\ cancels = 0
    /\ writes = <<>>
    /\ writerErrored = FALSE
    /\ promise = "pending"
    /\ outcomes = <<>>
    /\ caMid = FALSE
    /\ history = [runC |-> 0, sawCA |-> FALSE]
    /\ hdrIn = [filename |-> filename, filesize |-> totalBytes]
    /\ hdrOut = <<>>
    /\ splitBuf = <<>>
    /\ splitOut = [done |-> FALSE, array |-> <<>>]

InitDriver == InitTransfer(FileSizes)

Init ==
    /\ InitDriver
    /\ rxQueue = <<>>
    /\ rxAnswered = 0

\* ---------------------------------------------------------------- writes
\* One call of writer.write(data), issued with the cursor at `at`.
Written(kind, at, data) == [kind |-> kind, index |-> at, data |-> data]

\* sendPacket with the test of `sending` inverted: no EOT once armed.
sendPacket_NoEot(s, snd) ==
    IF s < Len(file_trunks)
    THEN <<Written("frame", s, file_trunks[s + 1])>>
    ELSE IF ~snd THEN <<Written("EOT", s, eot_byte)>> ELSE <<>>

\* sendPacket with the cursor at s and the armed flag snd: the writes it issues.
sendPacket(s, snd) ==
    IF s < Len(file_trunks)
    THEN <<Written("frame", s, file_trunks[s + 1])>>
    ELSE IF snd THEN <<Written("EOT", s, eot_byte)>> ELSE <<>>

\* sendBuffer(eot_pack) with the cursor at s.
sendEotPack(s) == <<Written("eot_pack", s, eot_pack)>>

\* writer.write for each of `ws`: the calls are logged; a call may fail, after
\* which the writer stays errored. The rejection reaches no handler.
sendBuffer(ws) ==
    /\ writes' = writes \o ws
    /\ IF ws = <<>> THEN UNCHANGED writerErrored
       ELSE \E fails \in BOOLEAN : writerErrored' = (writerErrored \/ fails)

\* --------------------------------------------------------------- teardown
\* finish() with the `if (!finished)` guard dropped.
finish_NoGuard ==
    /\ outcomes' = Append(outcomes, [filePath |-> filename,
                                     totalBytes |-> totalBytes,
                                     writtenBytes |-> writtenBytes])
    /\ promise' = IF promise = "pending" THEN "resolved" ELSE promise
    /\ finished' = TRUE

finish ==
    /\ outcomes' = IF ~finished
                   THEN Append(outcomes, [filePath |-> filename,
                                          totalBytes |-> totalBytes,
                                          writtenBytes |-> writtenBytes])
                   ELSE outcomes
    /\ promise' = IF ~finished /\ promise = "pending" THEN "resolved" ELSE promise
    /\ finished' = TRUE

\* close() whose else branch forgets finish().
close_NoFinish ==
    IF readerLocked
    THEN /\ cancels' = cancels + 1
         /\ rd' = "closed"
         /\ UNCHANGED <<outcomes, promise, finished>>
    ELSE UNCHANGED <<outcomes, promise, finished, cancels, rd>>

\* close(): session and sending are cleared by the caller's conjunct; here the
\* branch on reader.locked.
close ==
    IF readerLocked
    THEN /\ cancels' = cancels + 1
         /\ rd' = "closed"
         /\ UNCHANGED <<outcomes, promise, finished>>
    ELSE /\ finish
         /\ UNCHANGED <<cancels, rd>>

\* The fulfilment of one reader.cancel() promise: its then-callback runs
\* between two turns of readData, never inside the loop over a chunk.
CancelDone ==
    /\ cancels > 0
    /\ pc # "loop"
    /\ cancels' = cancels - 1
    /\ finish
    /\ UNCHANGED <<driverVars, queueVars, rxVars, pc, left, inbound, rd,
                   readerLocked, released, writes, writerErrored, caMid, history>>

\* ---------------------------------------------------------------- readData
\* const { value, done } = await reader.read() yielding a chunk of n bytes.
ReadChunk ==
    /\ pc = "await"
    /\ rd = "open"
    /\ \E n \in 1..MaxChunk :
         /\ inbound + n <= MaxInbound
         /\ left' = n
         /\ inbound' = inbound + n
    /\ pc' = "loop"
    /\ UNCHANGED <<driverVars, queueVars, rxVars, finished, rd, readerLocked,
                   released, cancels, writes, writerErrored, promise, outcomes,
                   caMid, history>>

\* The read yields done (the peer ended the stream, or cancel() closed it):
\* break, then finally reader.releaseLock(). Nothing else is called.
ReadDone ==
    /\ pc = "await"
    /\ rd # "errored"
    /\ rd' = "closed"
    /\ pc' = "exit"
    /\ released' = TRUE
    /\ readerLocked' = FALSE
    /\ UNCHANGED <<driverVars, queueVars, rxVars, finished, left, inbound, cancels,
                   writes, writerErrored, promise, outcomes, caMid, history>>

\* The read fails: catch, reject(error), then finally reader.releaseLock().
ReadFail ==
    /\ pc = "await"
    /\ rd = "open"
    /\ rd' = "errored"
    /\ promise' = IF promise = "pending" THEN "rejected" ELSE promise
    /\ pc' = "exit"
    /\ released' = TRUE
    /\ readerLocked' = FALSE
    /\ UNCHANGED <<driverVars, queueVars, rxVars, finished, left, inbound, cancels,
                   writes, writerErrored, outcomes, caMid, history>>

\* One turn of the for loop over the chunk is taken: i++.
NextByte ==
    /\ pc = "loop"
    /\ left' = left - 1
    /\ pc' = IF left = 1 THEN "await" ELSE "loop"
    /\ UNCHANGED <<queueVars, inbound, readerLocked, released>>

NoTeardown == UNCHANGED <<finished, rd, cancels, promise, outcomes>>
NoWrite == UNCHANGED <<writes, writerErrored>>

\* ackedBytes without the clamp to totalBytes.
ackedBytes_NoCap(s, total) == (s + 1) * PACKET_SIZE_1024

\* writtenBytes after the ACK of the data packet at cursor s.
ackedBytes(s, total) == Min((s + 1) * PACKET_SIZE_1024, total)

\* progressCallback((writtenBytes / totalBytes) * 100), the value kept as the
\* exact fraction num / den.
onProgress(w, total) ==
    IF progressCallback
    THEN Append(progress, [num |-> w * 100, den |-> total])
    ELSE progress

\* The C branch without the test of PreChar: every C sends.
OnC_NoDedup ==
    /\ NextByte
    /\ ~finished
    /\ IF seq >= Len(file_trunks)
       THEN /\ sendBuffer(sendEotPack(seq))
            /\ UNCHANGED sending
       ELSE IF TRUE
       THEN /\ sendBuffer(sendPacket(seq, sending))
            /\ sending' = TRUE
       ELSE /\ NoWrite
            /\ UNCHANGED sending
    /\ PreChar' = CRC16
    /\ NoTeardown
    /\ UNCHANGED <<writtenBytes, seq, session, progress, caMid>>
    /\ history' = [history EXCEPT !.runC = @ + 1]

\* ch === CRC16
OnC ==
    /\ NextByte
    /\ ~finished
    /\ IF seq >= Len(file_trunks)
       THEN /\ sendBuffer(sendEotPack(seq))
            /\ UNCHANGED sending
       ELSE IF PreChar # CRC16
       THEN /\ sendBuffer(sendPacket(seq, sending))
            /\ sending' = TRUE
       ELSE /\ NoWrite
            /\ UNCHANGED sending
    /\ PreChar' = CRC16
    /\ NoTeardown
    /\ UNCHANGED <<writtenBytes, seq, session, progress, caMid>>
    /\ history' = [history EXCEPT !.runC = @ + 1]

\* The ACK branch with `seq <= file_trunks.length`: the cursor leaves the queue.
OnACK_PastEnd ==
    /\ NextByte
    /\ ~finished
    /\ IF ~session
       THEN /\ session' = FALSE
            /\ sending' = FALSE
            /\ close
            /\ NoWrite
            /\ UNCHANGED <<writtenBytes, seq, progress>>
       ELSE IF ~sending
       THEN /\ NoTeardown
            /\ NoWrite
            /\ UNCHANGED <<writtenBytes, seq, session, sending, progress>>
       ELSE IF seq = 0
       THEN /\ seq' = seq + 1
            /\ NoTeardown
            /\ NoWrite
            /\ UNCHANGED <<writtenBytes, session, sending, progress>>
       ELSE IF seq <= Len(file_trunks)
       THEN /\ writtenBytes' = IF writtenBytes < totalBytes
                               THEN ackedBytes(seq, totalBytes)
                               ELSE writtenBytes
            /\ seq' = seq + 1
            /\ progress' = onProgress(writtenBytes', totalBytes)
            /\ sendBuffer(sendPacket(seq + 1, sending))
            /\ NoTeardown
            /\ UNCHANGED <<session, sending>>
       ELSE /\ sending' = FALSE
            /\ session' = FALSE
            /\ sendBuffer(sendEotPack(seq))
            /\ NoTeardown
            /\ UNCHANGED <<writtenBytes, seq, progress>>
    /\ PreChar' = ACK
    /\ UNCHANGED caMid
    /\ history' = [history EXCEPT !.runC = 0]

\* ch === ACK
OnACK ==
    /\ NextByte
    /\ ~finished
    /\ IF ~session
       THEN /\ session' = FALSE
            /\ sending' = FALSE
            /\ close
            /\ NoWrite
            /\ UNCHANGED <<writtenBytes, seq, progress>>
       ELSE IF ~sending
       THEN /\ NoTeardown
            /\ NoWrite
            /\ UNCHANGED <<writtenBytes, seq, session, sending, progress>>
       ELSE IF seq = 0
       THEN /\ seq' = seq + 1
            /\ NoTeardown
            /\ NoWrite
            /\ UNCHANGED <<writtenBytes, session, sending, progress>>
       ELSE IF seq < Len(file_trunks)
       THEN /\ writtenBytes' = IF writtenBytes < totalBytes
                               THEN ackedBytes(seq, totalBytes)
                               ELSE writtenBytes
            /\ seq' = seq + 1
            /\ progress' = onProgress(writtenBytes', totalBytes)
            /\ sendBuffer(sendPacket(seq + 1, sending))
            /\ NoTeardown
            /\ UNCHANGED <<session, sending>>
       ELSE /\ sending' = FALSE
            /\ session' = FALSE
            /\ sendBuffer(sendEotPack(seq))
            /\ NoTeardown
            /\ UNCHANGED <<writtenBytes, seq, progress>>
    /\ PreChar' = ACK
    /\ UNCHANGED caMid
    /\ history' = [history EXCEPT !.runC = 0]

\* The NAK branch taken as an acknowledgement: the cursor moves on.
OnNAK_Advance ==
    /\ NextByte
    /\ ~finished
    /\ seq' = seq + 1
    /\ sendBuffer(sendPacket(seq + 1, sending))
    /\ PreChar' = NAK
    /\ NoTeardown
    /\ UNCHANGED <<writtenBytes, session, sending, progress, caMid>>
    /\ history' = [history EXCEPT !.runC = 0]

\* ch === NAK
OnNAK ==
    /\ NextByte
    /\ ~finished
    /\ sendBuffer(sendPacket(seq, sending))
    /\ PreChar' = NAK
    /\ NoTeardown
    /\ UNCHANGED <<writtenBytes, seq, session, sending, progress, caMid>>
    /\ history' = [history EXCEPT !.runC = 0]

\* Mid-transfer: armed, the file has data packets, every packet up to the
\* cursor has been written and the one at the cursor is not yet acknowledged.
MidTransfer ==
    /\ sending
    /\ Len(file_trunks) > 1
    /\ seq < Len(file_trunks)
    /\ \A i \in 0..seq :
         \E k \in 1..Len(writes) : writes[k].kind = "frame" /\ writes[k].index = i

\* ch === CA: close("CA")
OnCA ==
    /\ NextByte
    /\ ~finished
    /\ session' = FALSE
    /\ sending' = FALSE
    /\ close
    /\ PreChar' = CA
    /\ caMid' = (caMid \/ MidTransfer)
    /\ history' = [runC |-> 0, sawCA |-> TRUE]
    /\ NoWrite
    /\ UNCHANGED <<writtenBytes, seq, progress>>

\* Any other byte: only PreChar = ch.
OnOther ==
    /\ NextByte
    /\ ~finished
    /\ PreChar' = 0
    /\ NoTeardown
    /\ NoWrite
    /\ UNCHANGED <<writtenBytes, seq, session, sending, progress, caMid>>
    /\ history' = [history EXCEPT !.runC = 0]

\* if (!finished) is false: the byte is passed over, whatever it is.
OnSkip ==
    /\ NextByte
    /\ finished
    /\ NoTeardown
    /\ NoWrite
    /\ UNCHANGED <<driverVars, caMid, history>>

\* ------------------------------------------- any inbound bytes: Spec
RcvC == OnC /\ UNCHANGED rxVars
RcvACK == OnACK /\ UNCHANGED rxVars
RcvNAK == OnNAK /\ UNCHANGED rxVars
RcvCA == OnCA /\ UNCHANGED rxVars
RcvOther == OnOther /\ UNCHANGED rxVars
RcvSkip == OnSkip /\ UNCHANGED rxVars

Next ==
    \/ ReadChunk
    \/ ReadDone
    \/ ReadFail
    \/ RcvC
    \/ RcvACK
    \/ RcvNAK
    \/ RcvCA
    \/ RcvOther
    \/ RcvSkip
    \/ CancelDone

Spec == Init /\ [][Next]_vars

\* ------------------------------------ a well-behaved receiver: SpecRx
\* The receiver polls C, answers every write of the driver with ACK, and
\* polls C again after the ACK of the header. The transport does not fail
\* and the stream stays open until the driver cancels it.
InitRx ==
    /\ InitDriver
    /\ rxQueue = <<CRC16>>
    /\ rxAnswered = 0

RxAnswer ==
    /\ rxAnswered < Len(writes)
    /\ LET w == writes[rxAnswered + 1]
       IN  rxQueue' = rxQueue \o (IF w.kind = "frame" /\ w.index = 0
                                  THEN <<ACK, CRC16>> ELSE <<ACK>>)
    /\ rxAnswered' = rxAnswered + 1
    /\ UNCHANGED <<driverVars, queueVars, finished, pc, left, inbound, rd,
                   readerLocked, released, cancels, writes, writerErrored,
                   promise, outcomes, caMid, history>>

\* reader.read() yields the next bytes of the receiver, at most MaxChunk.
RxRead ==
    /\ pc = "await"
    /\ rd = "open"
    /\ rxQueue # <<>>
    /\ \E n \in 1..MaxChunk :
         /\ n <= Len(rxQueue)
         /\ left' = n
    /\ pc' = "loop"
    /\ UNCHANGED <<driverVars, queueVars, rxVars, finished, inbound, rd,
                   readerLocked, released, cancels, writes, writerErrored,
                   promise, outcomes, caMid, history>>

RxTake(ch) ==
    /\ rxQueue # <<>>
    /\ Head(rxQueue) = ch
    /\ rxQueue' = Tail(rxQueue)
    /\ UNCHANGED rxAnswered

RxRcvC == RxTake(CRC16) /\ OnC /\ ~writerErrored'
RxRcvACK == RxTake(ACK) /\ OnACK /\ ~writerErrored'
RxReadDone == rd = "closed" /\ ReadDone

NextRx ==
    \/ RxAnswer
    \/ RxRead
    \/ RxRcvC
    \/ RxRcvACK
    \/ RxReadDone
    \/ CancelDone

\* The receiver, the stream and the microtask queue all keep going.
SpecRx == InitRx /\ [][NextRx]_vars /\ WF_vars(NextRx)

\* ================================================================ claims
FrameWrites == {k \in 1..Len(writes) : writes[k].kind = "frame"}
SetMin(S) == CHOOSE m \in S : \A x \in S : m <= x

\* C1: whatever termination paths are taken, resolve() is called with an
\* outcome at most once, an outcome implies finished, and finished, once
\* true, stays true.
C1_OutcomeAtMostOnce ==
    [][/\ Len(outcomes') <= 1
       /\ (outcomes' # <<>> => finished')
       /\ (finished => finished')]_vars

\* C1 witness: the outcome was produced while a second teardown (another
\* reader.cancel() callback that will call finish again) is still to run.
C1_Witness == Len(outcomes) = 1 /\ finished /\ cancels > 0

\* C2 (as claimed): once the read loop has left on end-of-stream and no
\* teardown callback is left to run, the outcome has been produced.
C2_EndOfStreamProducesOutcome ==
    (pc = "exit" /\ rd = "closed" /\ cancels = 0) => outcomes # <<>>

\* C3: against the well-behaved receiver the transfer reaches Done and the
\* outcome reports writtenBytes = totalBytes, for every file length.
C3_CleanTransferCompletes ==
    <>(finished /\ Len(outcomes) = 1 /\ outcomes[1].writtenBytes = totalBytes
       /\ outcomes[1].totalBytes = totalBytes)

\* C3 witness: a file of two data packets, the last one a short 128-byte
\* frame, went through header, both packets, EOT and the closing frame.
C3_Witness ==
    /\ finished
    /\ totalBytes = PACKET_SIZE_1024 + 128
    /\ Len(writes) = 5
    /\ writes[4].kind = "EOT"
    /\ outcomes[1].writtenBytes = totalBytes

\* C4 (as claimed): the frames written have non-decreasing queue indices
\* starting at 0, and a bare EOT is written only with the cursor at the
\* queue length and only after the last data packet was written.
C4_WritesInQueueOrder ==
    /\ \A j, k \in FrameWrites : j < k => writes[j].index <= writes[k].index
    /\ FrameWrites # {} => writes[SetMin(FrameWrites)].index = 0
    /\ \A k \in 1..Len(writes) :
         writes[k].kind = "EOT" =>
           /\ writes[k].index = Len(file_trunks)
           /\ Len(file_trunks) > 1 =>
                \E j \in FrameWrites : j < k /\ writes[j].index = Len(file_trunks) - 1

\* A step of the loop that handled a NAK.
NakStep == pc = "loop" /\ ~finished /\ left' = left - 1 /\ PreChar' = NAK

\* C5: a NAK handled with the cursor in the queue writes exactly the queue
\* entry at the cursor, the same bytes as every earlier write of that index,
\* and changes neither the queue, the cursor, writtenBytes, armed nor active.
C5_NakResendsCurrent ==
    [][(NakStep /\ seq < Len(file_trunks)) =>
         /\ writes' = Append(writes, Written("frame", seq, file_trunks[seq + 1]))
         /\ \A k \in FrameWrites :
              writes[k].index = seq => writes[k].data = writes'[Len(writes')].data
         /\ UNCHANGED <<file_trunks, seq, writtenBytes, sending, session>>]_vars

\* C5 witness: two NAKs in a row after a data packet: it was written three
\* times.
C5_Witness ==
    /\ PreChar = NAK
    /\ Len(writes) >= 4
    /\ \A k \in (Len(writes) - 2)..Len(writes) :
         writes[k].kind = "frame" /\ writes[k].index = seq
    /\ seq >= 1

\* C6 (as claimed): a CA handled mid-transfer (armed, the last data packet
\* not yet acknowledged) gives an outcome with writtenBytes < totalBytes.
C6_CancelMidTransferIsPartial ==
    (caMid /\ outcomes # <<>>) => outcomes[1].writtenBytes < outcomes[1].totalBytes

\* C7 (as claimed): for a 0-byte file the queue is the header alone, no data
\* packet is ever written, and the first thing written once the header is
\* acknowledged is the EOT signal.
C7_EmptyFileGoesToEot ==
    totalBytes = 0 =>
      /\ Len(file_trunks) = 1
      /\ \A k \in FrameWrites : writes[k].index = 0
      /\ LET later == {k \in 1..Len(writes) : writes[k].index >= 1}
         IN  later # {} => writes[SetMin(later)].kind = "EOT"

\* C8 (as claimed): after a failed read or a failed write no outcome is
\* produced, and a read that failed before the outcome rejected the promise.
C8_TransportFailureAborts ==
    /\ writerErrored => outcomes = <<>>
    /\ (rd = "errored" /\ ~finished) => (promise = "rejected" /\ outcomes = <<>>)

NameChars == {97, 46, 233}

RECURSIVE NamesUpTo(_)
NamesUpTo(n) ==
    IF n = 0 THEN {<<>>}
    ELSE NamesUpTo(n - 1) \cup {Append(w, c) : w \in NamesUpTo(n - 1), c \in NameChars}

FileNames == NamesUpTo(MaxNameLen)

InitHdr ==
    /\ hdrIn \in [filename : FileNames, filesize : FileSizes]
    /\ hdrOut = <<>>
    /\ filename = hdrIn.filename
    /\ totalBytes = hdrIn.filesize
    /\ file_trunks = <<>>
    /\ writtenBytes = 0
    /\ seq = 0
    /\ session = FALSE
    /\ sending = FALSE
    /\ finished = FALSE
    /\ PreChar = 0
    /\ progressCallback = FALSE
    /\ progress = <<>>
    /\ pc = "exit"
    /\ left = 0
    /\ inbound = 0
    /\ rd = "open"
    /\ readerLocked = FALSE
    /\ released = FALSE
    /\ cancels = 0
    /\ writes = <<>>
    /\ writerErrored = FALSE
    /\ promise = "pending"
    /\ outcomes = <<>>
    /\ caMid = FALSE
    /\ history = [runC |-> 0, sawCA |-> FALSE]
    /\ rxQueue = <<>>
    /\ rxAnswered = 0
    /\ splitBuf = <<>>
    /\ splitOut = [done |-> FALSE, array |-> <<>>]

\* var headerPayload = makeFileHeader(filename, totalBytes)
BuildHeader ==
    /\ hdrOut = <<>>
    /\ hdrOut' = makeFileHeader(hdrIn.filename, hdrIn.filesize)
    /\ UNCHANGED <<filename, file_trunks, totalBytes, progressCallback, hdrIn,
                   splitBuf, splitOut, driverVars, rxVars, finished, pc, left, inbound, rd,
                   readerLocked, released, cancels, writes, writerErrored,
                   promise, outcomes, caMid, history>>

NextHdr == BuildHeader

SpecHdr == InitHdr /\ [][NextHdr]_vars

\* The receiving side's reading of a header payload: the name is the bytes
\* before the first NUL, the size the decimal text after it up to the space.
HeaderPayload(pkt) == SubSeq(pkt, 4, 131)

FirstIndexOf(bytes, b, from) ==
    LET hits == {k \in from..Len(bytes) : bytes[k] = b}
    IN  IF hits = {} THEN 0 ELSE SetMin(hits)

ParseName(payload) ==
    LET nul == FirstIndexOf(payload, 0, 1) IN SubSeq(payload, 1, nul - 1)

RECURSIVE DecimalValue(_)
\* The number a decimal text denotes; -1 when it is empty or no decimal text.
DecimalValue(txt) ==
    IF txt = <<>> THEN -1
    ELSE LET d == txt[Len(txt)] - 48
             rest == SubSeq(txt, 1, Len(txt) - 1)
         IN  IF d < 0 \/ d > 9 THEN -1
             ELSE IF rest = <<>> THEN d
             ELSE IF DecimalValue(rest) < 0 THEN -1
             ELSE 10 * DecimalValue(rest) + d

ParseSize(payload) ==
    LET nul == FirstIndexOf(payload, 0, 1)
        sp == FirstIndexOf(payload, 32, nul + 1)
    IN  IF nul = 0 \/ sp = 0 THEN -1 ELSE DecimalValue(SubSeq(payload, nul + 1, sp - 1))

\* C10 (as claimed): the header payload parsed back gives the file name and
\* the file size that were supplied, size 0 included.
C10_HeaderRoundTrip ==
    hdrOut # <<>> =>
      /\ ParseName(HeaderPayload(hdrOut)) = Utf8(hdrIn.filename)
      /\ ParseSize(HeaderPayload(hdrOut)) = hdrIn.filesize

\* ------------------------------------- splitFile on its own: SpecSplit
\* The closure variables of transfer() while no transfer is running.
NoTransfer ==
    /\ filename = <<>>
    /\ totalBytes = 0
    /\ file_trunks = <<>>
    /\ writtenBytes = 0
    /\ seq = 0
    /\ session = FALSE
    /\ sending = FALSE
    /\ finished = FALSE
    /\ PreChar = 0
    /\ progressCallback = FALSE
    /\ progress = <<>>
    /\ pc = "exit"
    /\ left = 0
    /\ inbound = 0
    /\ rd = "open"
    /\ readerLocked = FALSE
    /\ released = FALSE
    /\ cancels = 0
    /\ writes = <<>>
    /\ writerErrored = FALSE
    /\ promise = "pending"
    /\ outcomes = <<>>
    /\ caMid = FALSE
    /\ history = [runC |-> 0, sawCA |-> FALSE]
    /\ rxQueue = <<>>
    /\ rxAnswered = 0

\* Buffer lengths: around every multiple of 1024 and around the 128 limit.
SplitSizes ==
    {b * PACKET_SIZE_1024 + r : b \in 0..(MaxBlocks - 1), r \in {0, 1, 127, 128, 129, 1023}}
        \cup {MaxBlocks * PACKET_SIZE_1024}

\* Contents: a ramp from a seed, so that blocks differ and so that the bytes
\* 0 and 0x1A occur as data.
SplitSeeds == {0, 26, 200}
FileBuffer(len, seed) == [k \in 1..len |-> (seed + ((k - 1) \div 5)) % 256]

InitSplit ==
    /\ NoTransfer
    /\ hdrIn = [filename |-> <<>>, filesize |-> 0]
    /\ hdrOut = <<>>
    /\ \E len \in SplitSizes, seed \in SplitSeeds : splitBuf = FileBuffer(len, seed)
    /\ splitOut = [done |-> FALSE, array |-> <<>>]

\* var payloads = splitFile(buffer)
SplitFile ==
    /\ ~splitOut.done
    /\ splitOut' = [done |-> TRUE, array |-> splitFileBytes(splitBuf)]
    /\ UNCHANGED <<filename, file_trunks, totalBytes, progressCallback, hdrIn, hdrOut,
                   splitBuf, driverVars, rxVars, finished, pc, left, inbound, rd,
                   readerLocked, released, cancels, writes, writerErrored,
                   promise, outcomes, caMid, history>>

NextSplit == SplitFile

SpecSplit == InitSplit /\ [][NextSplit]_vars

CeilDiv(a, b) == IF a % b = 0 THEN a \div b ELSE (a \div b) + 1

\* The payload of a frame: what lies between the three head bytes and the CRC.
FramePayload(frame) == SubSeq(frame, 4, Len(frame) - 2)

RECURSIVE ConcatPayloads(_)
ConcatPayloads(frames) ==
    IF frames = <<>> THEN <<>>
    ELSE FramePayload(Head(frames)) \o ConcatPayloads(Tail(frames))

\* C11: splitFile returns ceil(L / 1024) frames; each is a 1029-byte STX frame
\* of 1024 payload bytes, except that the last is a 133-byte SOH frame of 128
\* payload bytes exactly when at most 128 bytes remain for it; the payload
\* bytes past the end of the file are 0x1A; and the first L bytes of the
\* concatenated payloads are the buffer.
C11_SplitFrames ==
    splitOut.done =>
      LET L == Len(splitBuf)
          arr == splitOut.array
          n == Len(arr)
          all == ConcatPayloads(arr)
      IN  /\ n = CeilDiv(L, 1024)
          /\ \A k \in 1..n :
               IF k = n /\ L - (k - 1) * 1024 <= 128
               THEN Len(arr[k]) = 128 + 5 /\ arr[k][1] = SOH
               ELSE Len(arr[k]) = 1024 + 5 /\ arr[k][1] = STX
          /\ Len(all) >= L
          /\ SubSeq(all, 1, L) = splitBuf
          /\ \A j \in (L + 1)..Len(all) : all[j] = 26

\* C11 witness: a buffer of two full blocks and 128 more bytes was split: the
\* third frame is the small one, full of data.
C11_Witness ==
    /\ splitOut.done
    /\ Len(splitBuf) = 2 * 1024 + 128
    /\ Len(splitOut.array) = 3
    /\ Len(splitOut.array[3]) = 133

\* --------------------------------------------------- the cursor: Spec
\* C12: the cursor stays within 0..length of the queue, no step lowers it,
\* a step raises it by at most 1, and the queue never changes.
C12_CursorMonotoneBounded ==
    [][/\ 0 <= seq /\ seq <= Len(file_trunks)
       /\ 0 <= seq' /\ seq' <= Len(file_trunks')
       /\ seq <= seq'
       /\ seq' <= seq + 1
       /\ file_trunks' = file_trunks]_vars

\* C12 witness: the cursor has walked the whole queue of a file of three
\* data packets, one ACK at a time.
C12_Witness ==
    /\ Len(file_trunks) = 4
    /\ seq = Len(file_trunks)
    /\ \A i \in 0..3 : \E k \in FrameWrites : writes[k].index = i

\* A step of the loop that handled a C.
CStep == pc = "loop" /\ ~finished /\ left' = left - 1 /\ PreChar' = CRC16

\* C13: with the cursor in the queue, a C that follows a C writes nothing and
\* changes no session state; the first C of a run writes exactly the queue
\* entry at the cursor. So a run of C bytes causes one write.
C13_RepeatedCSuppressed ==
    [][(CStep /\ seq < Len(file_trunks)) =>
         IF PreChar = CRC16
         THEN UNCHANGED <<writes, file_trunks, seq, writtenBytes, sending, session,
                          finished, outcomes, progress, cancels>>
         ELSE /\ writes' = Append(writes, Written("frame", seq, file_trunks[seq + 1]))
              /\ UNCHANGED <<file_trunks, seq, writtenBytes, session>>]_vars

\* C13 witness: a run of three C bytes at the header: one write, of the header.
C13_Witness ==
    /\ history.runC = 3
    /\ seq = 0
    /\ inbound = 3
    /\ left = 0
    /\ Len(writes) = 1
    /\ writes[1].kind = "frame"
    /\ writes[1].index = 0

\* A step of the loop that handled an ACK.
AckStep == pc = "loop" /\ ~finished /\ left' = left - 1 /\ PreChar' = ACK

\* The packet at queue index i has been written at least once.
WasWritten(i) == \E k \in FrameWrites : writes[k].index = i

\* C14 (as claimed): an ACK handled while armed with 0 < cursor < length, the
\* packet at the cursor having been written, sets writtenBytes to
\* min(cursor * 1024, totalBytes), the bytes of the data packets acknowledged
\* so far; writtenBytes never decreases and never exceeds totalBytes.
C14_WrittenBytesAcked ==
    [][/\ (AckStep /\ session /\ sending /\ 0 < seq /\ seq < Len(file_trunks)
           /\ \A i \in 0..seq : WasWritten(i))
          => writtenBytes' = Min(seq * PACKET_SIZE_1024, totalBytes)
       /\ writtenBytes <= writtenBytes'
       /\ writtenBytes' <= totalBytes]_vars

\* C15 (as claimed): with the cursor at the queue length, a C, and an ACK
\* handled while armed, write the single byte EOT; the ACK also clears armed
\* and active.
C15_BareEotAtEnd ==
    [][/\ (CStep /\ seq >= Len(file_trunks))
          => writes' = Append(writes, Written("EOT", seq, eot_byte))
       /\ (AckStep /\ session /\ sending /\ seq >= Len(file_trunks))
          => /\ writes' = Append(writes, Written("EOT", seq, eot_byte))
             /\ ~sending'
             /\ ~session']_vars

\* The outcome finish() produces from the current counters.
Outcome == [filePath |-> filename, totalBytes |-> totalBytes, writtenBytes |-> writtenBytes]

\* C16 (as claimed): at every ACK handled, the session is active only if a
\* packet has been sent; an ACK that finds the session not active, or that
\* comes before the first packet, requests teardown and neither moves the
\* cursor nor writes.
C16_ActiveAfterFirstPacket ==
    [][AckStep =>
         /\ session => writes # <<>>
         /\ (~session \/ writes = <<>>)
            => /\ UNCHANGED <<seq, writes, writtenBytes>>
               /\ IF readerLocked THEN cancels' = cancels + 1
                  ELSE finished' /\ outcomes' = <<Outcome>>]_vars

\* C16 (amended): the session is active from the start of the transfer, before
\* any packet is sent, until a CA or the ACK that closes the data phase clears
\* it. An ACK that finds it not active requests teardown (the outcome is
\* produced at once, or by the cancel callback of a locked reader) with the
\* byte count reached so far, and neither moves the cursor nor writes. An ACK
\* that finds it active but not armed, as before the first packet, is ignored.
C16_AckWhileNotActive ==
    [][/\ ~session' => (history'.sawCA \/ \E k \in 1..Len(writes') : writes'[k].kind = "eot_pack")
       /\ (writes' = <<>> /\ ~history'.sawCA) => session'
       /\ (AckStep /\ ~session)
          => /\ UNCHANGED <<seq, writes, writtenBytes, progress>>
             /\ ~session' /\ ~sending'
             /\ IF readerLocked
                THEN cancels' = cancels + 1 /\ UNCHANGED outcomes
                ELSE finished' /\ outcomes' = <<Outcome>>
       /\ (AckStep /\ session /\ ~sending)
          => UNCHANGED <<seq, writes, writtenBytes, progress, session, sending,
                         finished, outcomes, cancels>>]_vars

\* C16 witness: no CA; the data phase of a one-packet file was closed and the
\* ACK after that produced the outcome.
C16_Witness ==
    /\ ~history.sawCA
    /\ ~readerLocked
    /\ PreChar = ACK
    /\ finished
    /\ Len(outcomes) = 1
    /\ Len(file_trunks) = 2
    /\ seq = 2
    /\ writes # <<>>
    /\ writes[Len(writes)].kind = "eot_pack"
    /\ outcomes[1].writtenBytes = writtenBytes

\* C17 (as claimed): when the outcome is produced, the release of the reader
\* has been requested (a cancel is under way) or the lock has been released.
C17_ReleaseBeforeOutcome ==
    [][(outcomes = <<>> /\ outcomes' # <<>>) => (cancels > 0 \/ released)]_vars

\* C18 (as claimed): once a CA has been handled, no step writes or changes the
\* cursor, writtenBytes, armed or active; and finished stays.
C18_NothingAfterCancel ==
    [][/\ history.sawCA => UNCHANGED <<writes, seq, writtenBytes, sending, session>>
       /\ finished => finished']_vars

\* C20 (as claimed): every packet below the cursor has been written at least
\* once, and an end-of-transmission write (the EOT byte or the closing frame)
\* comes only after every packet of the queue was written.
C20_NoPacketSkipped ==
    /\ \A i \in 0..(seq - 1) : WasWritten(i)
    /\ \A k \in 1..Len(writes) :
         writes[k].kind # "frame" =>
           \A i \in 0..(Len(file_trunks) - 1) :
             \E j \in FrameWrites : j < k /\ writes[j].index = i

\* ------------------------------------ queues of over 255 packets: SpecSeq
\* Files of MaxLongBlocks data packets, the last one short or full, sent to
\* the well-behaved receiver.
MaxLongBlocks == 257
LongSizes == {(MaxLongBlocks - 1) * PACKET_SIZE_1024 + 100, MaxLongBlocks * PACKET_SIZE_1024}

InitSeq ==
    /\ InitTransfer(LongSizes)
    /\ rxQueue = <<CRC16>>
    /\ rxAnswered = 0

SpecSeq == InitSeq /\ [][NextRx]_vars

\* C19: every packet of the queue carries its queue index modulo 256 as
\* sequence byte and 0xFF minus that as complement, in the queue and as
\* written; the cursor counts on past 255: the k-th frame written is the
\* packet at index k - 1, and the cursor is never behind it.
C19_SeqByteWraps ==
    /\ \A k \in 1..Len(file_trunks) :
         /\ file_trunks[k].seq = (k - 1) % 256
         /\ file_trunks[k].comp = 255 - file_trunks[k].seq
    /\ \A k \in FrameWrites :
         /\ writes[k].index = k - 1
         /\ writes[k].index <= seq
         /\ writes[k].data.seq = writes[k].index % 256
         /\ writes[k].data.comp = 255 - writes[k].data.seq

\* C19 witness: the cursor is at 257; the packets at indices 256 and 257 went
\* out with sequence bytes 0 and 1.
C19_Witness ==
    /\ seq = 257
    /\ Len(writes) >= 258
    /\ writes[257].index = 256
    /\ writes[257].data.seq = 0
    /\ writes[257].data.comp = 255
    /\ writes[258].index = 257
    /\ writes[258].data.seq = 1
====
